---- MODULE Spec2Model ----
(***************************************************************************)
(* LightServer of lib/hue-server.js: the registry of lights, the registry  *)
(* of Node-RED nodes per light, the poll timer and the fetches and writes  *)
(* in flight against the Hue bridge.                                       *)
(*                                                                         *)
(* Time is process.uptime() in whole seconds; durations are milliseconds.  *)
(* Every handler runs to completion (single event loop), so every action   *)
(* is one whole handler.  `last` records what the handler that ran last    *)
(* did: the calls it made on nodes, the change events emitted, whether an  *)
(* exception left it.                                                      *)
(***************************************************************************)
EXTENDS Integers, Sequences, FiniteSets, TLC

VARIABLES
  cfgIn,             \* the config object handed to the constructor
  config,            \* self.config after the constructor's interval check
  nodeList,          \* lightID -> the nodes of the light, in the order of their keys
  lights,            \* uniqueid -> LightItem
  lightPollInterval, \* null, or the timer and the interval it was armed with
  pending,           \* hueApi.lights() requests in flight, each with its issue
                     \* number and whether stop() was called since it was issued
  writes,            \* the number of hueApi.setLightState() requests in flight
  issued,            \* number of hueApi.lights() requests issued so far
  now,               \* process.uptime()
  last               \* what the handler that ran last did

vars == <<cfgIn, config, nodeList, lights, lightPollInterval, pending, writes,
          issued, now, last>>

----------------------------------------------------------------------------
(* Bounds of the model *)

MaxTime == 2
MaxFetches == 2
MaxWrites == 1

(* Program constants *)

MinInterval == 500

LightIds == {"L1", "L2"}
NodeIds == {"n1", "n2"}

\* node.isOutput: true, false (or undefined), and a truthy value that is not
\* the boolean true (1, "true")
Truthy(v) == v \in {"true", "truthy"}
StrictTrue(v) == v = "true"

\* a node object handed to nodeRegister; faulty: its status() raises
Node(id, isOutput, faulty) == [id |-> id, isOutput |-> isOutput, faulty |-> faulty]

\* the node objects handed to nodeRegister: an input node (isOutput true) and a
\* node that registers with isOutput false or with a truthy value
Nodes ==
  {Node("n1", "true", FALSE),
   Node("n2", "false", FALSE),
   Node("n2", "truthy", FALSE)}

\* the same flow with a node whose status() raises
FaultyNodes ==
  {Node("n1", "true", FALSE),
   Node("n2", "false", TRUE)}

\* the lights the nodes of the flow are configured for: a node registers for
\* its light and writes to it; nobody is interested in the other light
ConfiguredLights == {"L1"}
States == {50, 80}
Durations == {0, 1500}


----------------------------------------------------------------------------
(* JavaScript values of config.interval: a tagged value *)

Num(n) == [t |-> "number", n |-> n, s |-> ""]
Str(s) == [t |-> "string", n |-> 0, s |-> s]
Undefined == [t |-> "undefined", n |-> 0, s |-> ""]

ConfigIntervals ==
  {Undefined, Str("fast"), Str("number"), Num(0), Num(-1), Num(100), Num(500), Num(1000)}

\* a !== b
StrictNotEqual(a, b) == a # b

\* a < b with b a number: undefined converts to NaN, and NaN < b is false;
\* a string converts to a number when it is numeric, to NaN otherwise.
LessThan(a, b) == a.t = "number" /\ a.n < b

\* lines 51-55: self.config = merge({}, config); the check compares the VALUE
\* of config.interval with the string 'number' and reads self.interval, which
\* is never assigned (undefined).
CheckedInterval(interval) ==
  IF StrictNotEqual(interval, Str("number")) \/ LessThan(Undefined, MinInterval)
  THEN Num(MinInterval)
  ELSE interval

----------------------------------------------------------------------------
(* Payloads of the bridge *)

BridgeId(l) == IF l = "L1" THEN "1" ELSE "2"
BridgeName(l) == IF l = "L1" THEN "Desk" ELSE "Hall"

Info(l, s) == [uniqueid |-> l, id |-> BridgeId(l), name |-> BridgeName(l), state |-> s]
Infos == {Info(l, s) : l \in LightIds, s \in States}

\* data.lights: every light of the bridge at most once, in the bridge's order
Snapshots ==
  {snap \in UNION {[1..k -> Infos] : k \in 0..Cardinality(LightIds)} :
     \A i, j \in 1..Len(snap) : snap[i].uniqueid = snap[j].uniqueid => i = j}

\* the value argument of lightChange
Values == [state : States, duration : Durations]

EmptyMap == [x \in {} |-> 0]

Null == [armed |-> FALSE, every |-> Undefined]
Timer(interval) == [armed |-> TRUE, every |-> interval]

----------------------------------------------------------------------------
(* Records of what a handler did *)

StatusCall(n, l, text) == [kind |-> "status", to |-> n, light |-> l, text |-> text, bri |-> 0]
SendCall(n, l, colors) == [kind |-> "send", to |-> n, light |-> l, text |-> "", bri |-> colors.brightness]

NoLight == "none"
NoNode == Node("none", "false", FALSE)

\* op: the handler; light, node: its arguments; calls: the calls made on nodes,
\* in order; changed: the lights whose change event was emitted; added: the
\* lights added; thrown: an exception left the handler; late: the handler is
\* the callback of a fetch, and the callback of a fetch issued after it had
\* already run ("overtaken"), or stop() was called while the fetch was in
\* flight ("stopped"), or both; reported: the channel of the hub a failure was
\* reported on ("error", "warning"), "none" when nothing was reported.
\* result: what the caller got back; steps: the order of the statements of
\* lightChange; seen: the lights of the payload a fetch callback was given;
\* list: the array getLights() returned.
Did(op, l, n, calls, changed, added, thrown, reported, late) ==
  [op |-> op, light |-> l, node |-> n, calls |-> calls, changed |-> changed,
   added |-> added, thrown |-> thrown, reported |-> reported, late |-> late,
   result |-> "undefined", steps |-> <<>>, seen |-> {}, list |-> <<>>]

RECURSIVE Count(_, _, _, _)
\* the number of calls of `kind` on node n for light l in a sequence of calls
Count(calls, kind, n, l) ==
  IF calls = <<>> THEN 0
  ELSE (IF Head(calls).kind = kind /\ Head(calls).to = n /\ Head(calls).light = l
        THEN 1 ELSE 0) + Count(Tail(calls), kind, n, l)

\* nodes.hasOwnProperty(id)
HasKey(nodes, id) == \E i \in 1..Len(nodes) : nodes[i].id = id

RECURSIVE Without(_, _)
\* delete nodes[id]
Without(nodes, id) ==
  IF nodes = <<>> THEN <<>>
  ELSE IF Head(nodes).id = id THEN Without(Tail(nodes), id)
  ELSE <<Head(nodes)>> \o Without(Tail(nodes), id)

\* nodes[id] = node: a key already present keeps its place
Put(nodes, node) ==
  IF HasKey(nodes, node.id)
  THEN [i \in 1..Len(nodes) |-> IF nodes[i].id = node.id THEN node ELSE nodes[i]]
  ELSE Append(nodes, node)

----------------------------------------------------------------------------
(* LightItem (lib/hue-light.js) *)

\* new LightItem(info): the payload and its state, never written locally
NewLightItem(info) ==
  [state |-> info.state, modified |-> 0, info |-> [id |-> info.id, name |-> info.name]]

\* light.getColors(): the rendered state
getColors(light) == [brightness |-> light.state]

\* light.updateNodeStatus(node): node.status(...) from the light
updateNodeStatus(n, l, light) == StatusCall(n, l, "connected")

\* light.updateInfo(info): a change is taken over and announced only when the
\* state differs and the time is past light.modified
updateInfoChanges(light, info, t) == info.state # light.state /\ t > light.modified

updateInfo(light, info, t) ==
  IF updateInfoChanges(light, info, t) THEN [light EXCEPT !.state = info.state] ELSE light

\* light.updateColor(value): the local state takes the written value
updateColor(light, value) == [light EXCEPT !.state = value.state]

----------------------------------------------------------------------------
(* Fan-out to the nodes of a light *)

RECURSIVE NotifyEach(_, _, _, _)
\* the body of both forEach loops over the nodes of a light: the status of
\* every node is updated, the colors are sent to the nodes that want them.
\* strict: the test is `node.isOutput === true` (line 125), not `node.isOutput`
\* (line 148).
\* Neither loop has a try: a node whose status() raises ends the forEach.
NotifyEach(nodes, l, light, strict) ==
  IF nodes = <<>> THEN <<>>
  ELSE LET node == Head(nodes)
           wants == IF strict THEN StrictTrue(node.isOutput) ELSE Truthy(node.isOutput)
       IN IF node.faulty THEN <<>>
          ELSE <<updateNodeStatus(node.id, l, light)>>
               \o (IF wants THEN <<SendCall(node.id, l, getColors(light))>> ELSE <<>>)
               \o NotifyEach(Tail(nodes), l, light, strict)

\* an exception leaves the forEach over these nodes
NotifyThrows(nodes) == \E i \in 1..Len(nodes) : nodes[i].faulty

\* lines 140-152
statusUpdateLight(nl, l, light) ==
  IF l \in DOMAIN nl THEN NotifyEach(nl[l], l, light, FALSE) ELSE <<>>

statusUpdateThrows(nl, l) == l \in DOMAIN nl /\ NotifyThrows(nl[l])

\* lines 116-128, the 'change' listener: Object.keys(self.nodeList[uniqueid])
\* raises a TypeError when the light has no entry in nodeList.
changeThrows(nl, l) == l \notin DOMAIN nl \/ NotifyThrows(nl[l])

changeCalls(nl, l, light) ==
  IF changeThrows(nl, l) THEN <<>> ELSE NotifyEach(nl[l], l, light, TRUE)

----------------------------------------------------------------------------
(* Results of a pass over a fetched payload *)

Pass(ls, calls, changed, added, thrown) ==
  [lights |-> ls, calls |-> calls, changed |-> changed, added |-> added, thrown |-> thrown]

\* lines 110-133: addLight(info) on the pass so far
addLight(p, nl, info) ==
  LET light == NewLightItem(info)
      l == info.uniqueid
  IN Pass([x \in DOMAIN p.lights \cup {l} |-> IF x = l THEN light ELSE p.lights[x]],
          p.calls \o statusUpdateLight(nl, l, light),
          p.changed, p.added \cup {l}, p.thrown \/ statusUpdateThrows(nl, l))

RECURSIVE addAll(_, _, _)
\* lines 74-76: data.lights.forEach(item => self.addLight(item)); no try, an
\* exception ends the forEach and the callback
addAll(infos, p, nl) ==
  IF infos = <<>> \/ p.thrown THEN p
  ELSE addAll(Tail(infos), addLight(p, nl, Head(infos)), nl)

\* lines 32-34: the catch block evaluates err.toString() with the callback's
\* err, which is null on this path, and calls lightServer.warn, which
\* LightServer does not define: the handler itself raises, whatever was caught.
catchRethrows == TRUE

RECURSIVE processEach(_, _, _, _)
\* lines 23-35: lightsInfo.lights.forEach(...) on the pass so far; an exception
\* that leaves the arrow function ends the forEach.
processEach(infos, p, nl, t) ==
  IF infos = <<>> THEN p
  ELSE LET info == Head(infos)
           l == info.uniqueid
       IN IF l \notin DOMAIN p.lights
          THEN LET a == addLight(p, nl, info)
                   q == [a EXCEPT !.thrown = a.thrown /\ catchRethrows]
               IN IF q.thrown THEN q ELSE processEach(Tail(infos), q, nl, t)
          ELSE LET old == p.lights[l]
                   new == updateInfo(old, info, t)
                   emits == updateInfoChanges(old, info, t)
                   q == Pass([p.lights EXCEPT ![l] = new],
                             p.calls \o (IF emits THEN changeCalls(nl, l, new) ELSE <<>>),
                             IF emits THEN p.changed \cup {l} ELSE p.changed,
                             p.added,
                             emits /\ changeThrows(nl, l) /\ catchRethrows)
               IN IF q.thrown THEN q ELSE processEach(Tail(infos), q, nl, t)

EmptyPass(ls) == Pass(ls, <<>>, {}, {}, FALSE)

\* the uniqueids of a payload
Ids(infos) == {infos[i].uniqueid : i \in 1..Len(infos)}

\* processLights rebuilding the registry from the payload: a light the
\* payload omits is dropped
processLightsPass_Evicts(snap, ls, nl, t) ==
  processEach(snap, EmptyPass([x \in DOMAIN ls \cap Ids(snap) |-> ls[x]]), nl, t)

\* lines 23-35 on the registry as the callback finds it
processLightsPass(snap, ls, nl, t) == processEach(snap, EmptyPass(ls), nl, t)

----------------------------------------------------------------------------
(* The constructor, lines 48-84: the state it leaves, the first fetch issued *)

Constructed(intervals) ==
  /\ cfgIn \in [interval : intervals]
  /\ config = [interval |-> CheckedInterval(cfgIn.interval)]
  /\ nodeList = EmptyMap
  /\ lights = EmptyMap
  /\ lightPollInterval = Null
  /\ pending = {[seq |-> 1, kind |-> "init", stopped |-> FALSE]}
  /\ writes = [open |-> 0]
  /\ issued = 1
  /\ now = 1
  /\ last = Did("new", NoLight, NoNode, <<>>, {}, {}, FALSE, "none", {})

\* a hub configured with an interval of one second
Init == Constructed({Num(1000)})

\* a hub configured with any of the intervals
InitConfig == Constructed(ConfigIntervals)

\* every request issued is in flight or has had its callback run: the callback
\* of a request issued after p has run when its number is no longer pending
Overtaken(p) == \E q \in (p.seq + 1)..issued : \A r \in pending : r.seq # q

Late(p) ==
  (IF Overtaken(p) THEN {"overtaken"} ELSE {}) \cup (IF p.stopped THEN {"stopped"} ELSE {})

\* self.error and lightServer.warn / self.warn: LightServer defines neither
\* (only the wrapping Node-RED node has them), so the call raises a TypeError
\* and nothing is reported.
reportRaises == TRUE

Reported(channel) == IF reportRaises THEN "none" ELSE channel

\* lines 68-80, err unset
InitFetchOk(p, snap) ==
  /\ p \in pending /\ p.kind = "init"
  /\ LET r == addAll(snap, EmptyPass(lights), nodeList)
     IN /\ lights' = r.lights
        /\ last' = [Did("initFetch", NoLight, NoNode, r.calls, r.changed, r.added,
                         r.thrown, "none", Late(p)) EXCEPT !.seen = Ids(snap)]
  /\ lightPollInterval' =
       IF addAll(snap, EmptyPass(lights), nodeList).thrown
       THEN lightPollInterval
       ELSE Timer(config.interval)
  /\ pending' = pending \ {p}
  /\ UNCHANGED <<cfgIn, config, nodeList, writes, issued, now>>

\* lines 68-72, err set
InitFetchFail(p) ==
  /\ p \in pending /\ p.kind = "init"
  /\ pending' = pending \ {p}
  /\ last' = Did("initFetchFailed", NoLight, NoNode, <<>>, {}, {}, reportRaises,
                  Reported("error"), Late(p))
  /\ UNCHANGED <<cfgIn, config, nodeList, lights, lightPollInterval, writes, issued, now>>

\* lines 11-40 run by the timer of line 79: huePoll issues a fetch, whether or
\* not an earlier one is still in flight; at most `limit` fetches are issued
huePoll(limit) ==
  /\ lightPollInterval.armed
  /\ issued < limit
  /\ issued' = issued + 1
  /\ pending' = pending \cup {[seq |-> issued + 1, kind |-> "poll", stopped |-> FALSE]}
  /\ last' = Did("huePoll", NoLight, NoNode, <<>>, {}, {}, FALSE, "none", {})
  /\ UNCHANGED <<cfgIn, config, nodeList, lights, lightPollInterval, writes, now>>

\* lines 17-36, err unset
processLights(p, snap) ==
  /\ p \in pending /\ p.kind = "poll"
  /\ LET r == processLightsPass(snap, lights, nodeList, now)
     IN /\ lights' = r.lights
        /\ last' = [Did("processLights", NoLight, NoNode, r.calls, r.changed, r.added,
                         r.thrown, "none", Late(p)) EXCEPT !.seen = Ids(snap)]
  /\ pending' = pending \ {p}
  /\ UNCHANGED <<cfgIn, config, nodeList, lightPollInterval, writes, issued, now>>

\* lines 17-21, err set
processLightsFailed(p) ==
  /\ p \in pending /\ p.kind = "poll"
  /\ pending' = pending \ {p}
  /\ last' = Did("processLightsFailed", NoLight, NoNode, <<>>, {}, {}, reportRaises,
                  Reported("warning"), Late(p))
  /\ UNCHANGED <<cfgIn, config, nodeList, lights, lightPollInterval, writes, issued, now>>

----------------------------------------------------------------------------
(* The public operations *)

\* lines 162-164: the entry of the light is created when missing, the node is
\* stored under its id
nodeRegisterList(nl, l, node) ==
  LET old == IF l \in DOMAIN nl THEN nl[l] ELSE <<>>
  IN [x \in DOMAIN nl \cup {l} |-> IF x = l THEN Put(old, node) ELSE nl[x]]

\* nodeRegister leaving the state of a known light to the next poll
nodeRegisterCalls_NoSend(ls, l, node) ==
  IF l \in DOMAIN ls
  THEN <<updateNodeStatus(node.id, l, ls[l])>>
  ELSE <<StatusCall(node.id, l, "unknown")>>

\* lines 166-176: what the registered node is told; nothing once its status()
\* has raised
nodeRegisterCalls(ls, l, node) ==
  IF node.faulty THEN <<>>
  ELSE IF l \in DOMAIN ls
  THEN <<updateNodeStatus(node.id, l, ls[l])>>
       \o (IF Truthy(node.isOutput) THEN <<SendCall(node.id, l, getColors(ls[l]))>> ELSE <<>>)
  ELSE <<StatusCall(node.id, l, "unknown")>>

nodeRegister(l, node) ==
  /\ nodeList' = nodeRegisterList(nodeList, l, node)
  /\ last' = Did("nodeRegister", l, node, nodeRegisterCalls(lights, l, node), {}, {},
                  node.faulty, "none", {})
  /\ UNCHANGED <<cfgIn, config, lights, lightPollInterval, pending, writes, issued, now>>

\* nodeUnregister returning before the delete
nodeUnregisterList_Keeps(nl, l, n) == nl

\* lines 185-194
nodeUnregisterList(nl, l, n) ==
  IF l \notin DOMAIN nl THEN nl
  ELSE IF ~HasKey(nl[l], n) THEN nl
  ELSE [nl EXCEPT ![l] = Without(nl[l], n)]

nodeUnregister(l, n) ==
  /\ nodeList' = nodeUnregisterList(nodeList, l, n)
  /\ last' = Did("nodeUnregister", l, Node(n, "false", FALSE), <<>>, {}, {}, FALSE, "none", {})
  /\ UNCHANGED <<cfgIn, config, lights, lightPollInterval, pending, writes, issued, now>>

\* lightChange without the extension of line 224
lightChangeModified_NoTransition(t, d) == t + 1

\* lines 211-225: the deadline (seconds of uptime) for a change written at t
\* with value.duration d (milliseconds)
lightChangeModified(t, d) ==
  IF d > 0 THEN (t + 1) + ((1000 + d) \div 1000) ELSE t + 1

\* lines 208-225: the light after the local update
lightChangeLight(light, value, t) ==
  [updateColor(light, value) EXCEPT !.modified = lightChangeModified(t, value.duration)]

\* lines 205-206 and 234: a bare return and the end of the function; the
\* caller gets undefined whether or not the light is known, and no exception
lightChangeResult == "undefined"

\* the statements of lightChange on a known light, in the order of the lines
\* 211, 214, 224 (only for a positive duration) and 228
lightChangeSteps(value) ==
  <<"modified", "updateColor">>
  \o (IF value.duration > 0 THEN <<"modified">> ELSE <<>>)
  \o <<"setLightState">>

\* lines 202-234
lightChange(l, value) ==
  /\ IF l \notin DOMAIN lights
     THEN /\ UNCHANGED <<lights, writes>>
          /\ last' = [Did("lightChange", l, NoNode, <<>>, {}, {}, FALSE, "none", {})
                        EXCEPT !.result = lightChangeResult]
     ELSE /\ writes.open < MaxWrites
          /\ lights' = [lights EXCEPT ![l] = lightChangeLight(lights[l], value, now)]
          /\ writes' = [open |-> writes.open + 1]
          /\ last' = [Did("lightChange", l, NoNode, <<>>, {}, {}, FALSE, "none", {})
                        EXCEPT !.result = lightChangeResult,
                               !.steps = lightChangeSteps(value)]
  /\ UNCHANGED <<cfgIn, config, nodeList, lightPollInterval, pending, issued, now>>

\* lines 228-233: the callback of setLightState
setLightStateDone(failed) ==
  /\ writes.open > 0
  /\ writes' = [open |-> writes.open - 1]
  /\ last' = Did("setLightStateDone", NoLight, NoNode, <<>>, {}, {}, failed /\ reportRaises,
                  IF failed THEN Reported("warning") ELSE "none", {})
  /\ UNCHANGED <<cfgIn, config, nodeList, lights, lightPollInterval, pending, issued, now>>

\* lines 92-94: the timer is cleared and the handle forgotten
stopTimer(handle) == Null

\* stop() removing one light only
stopLights_One(ls) ==
  IF DOMAIN ls = {} THEN ls
  ELSE LET k == CHOOSE x \in DOMAIN ls : TRUE
       IN [x \in DOMAIN ls \ {k} |-> ls[x]]

\* lines 96-101: every light is stopped and the registry replaced by {}
stopLights(ls) == EmptyMap

\* lines 90-102
stop ==
  /\ lightPollInterval' = stopTimer(lightPollInterval)
  /\ lights' = stopLights(lights)
  /\ pending' = {[p EXCEPT !.stopped = TRUE] : p \in pending}
  /\ last' = Did("stop", NoLight, NoNode, <<>>, {}, {}, FALSE, "none", {})
  /\ UNCHANGED <<cfgIn, config, nodeList, writes, issued, now>>

RECURSIVE getLightsOf(_, _)
\* lines 243-248: one {id, info, name} per key of lights
getLightsOf(keys, ls) ==
  IF keys = {} THEN <<>>
  ELSE LET k == CHOOSE x \in keys : TRUE
       IN <<[id |-> k, info |-> ls[k].info.id, name |-> ls[k].info.name]>>
          \o getLightsOf(keys \ {k}, ls)

\* getLights() leaving out one of the lights
getLights_DropsOne ==
  IF DOMAIN lights = {} THEN <<>>
  ELSE getLightsOf(DOMAIN lights \ {CHOOSE x \in DOMAIN lights : TRUE}, lights)

\* lines 241-251
getLights == getLightsOf(DOMAIN lights, lights)

\* lines 295-307: the admin route asks the hub for its lights; the array is
\* built anew from strings of each light and handed to the caller
getLightsRequest ==
  /\ last' = [Did("getLights", NoLight, NoNode, <<>>, {}, {}, FALSE, "none", {})
                EXCEPT !.list = getLights]
  /\ UNCHANGED <<cfgIn, config, nodeList, lights, lightPollInterval, pending, writes,
                 issued, now>>

\* process.uptime() grows, up to `limit` seconds
Tick(limit) ==
  /\ now < limit
  /\ now' = now + 1
  /\ last' = Did("tick", NoLight, NoNode, <<>>, {}, {}, FALSE, "none", {})
  /\ UNCHANGED <<cfgIn, config, nodeList, lights, lightPollInterval, pending, writes,
                 issued>>

Handlers(limit, nodes, uptime) ==
  \/ \E p \in pending, snap \in Snapshots : InitFetchOk(p, snap)
  \/ \E p \in pending : InitFetchFail(p)
  \/ huePoll(limit)
  \/ \E p \in pending, snap \in Snapshots : processLights(p, snap)
  \/ \E p \in pending : processLightsFailed(p)
  \/ \E l \in ConfiguredLights, node \in nodes : nodeRegister(l, node)
  \/ \E l \in ConfiguredLights, n \in NodeIds : nodeUnregister(l, n)
  \/ \E l \in ConfiguredLights, value \in Values : lightChange(l, value)
  \/ \E failed \in BOOLEAN : setLightStateDone(failed)
  \/ stop
  \/ getLightsRequest
  \/ Tick(uptime)

\* the initial fetch and one poll
Next == Handlers(MaxFetches, Nodes, MaxTime)

Spec == Init /\ [][Next]_vars

\* one fetch more, so that two polls can be in flight together
NextOverlap == Handlers(MaxFetches + 1, Nodes, MaxTime)

SpecOverlap == Init /\ [][NextOverlap]_vars

\* the flow with the node whose status() raises
NextFaulty == Handlers(MaxFetches, FaultyNodes, MaxTime)

SpecFaulty == Init /\ [][NextFaulty]_vars

\* one second more, so that the deadline of a written light can pass
NextLater == Handlers(MaxFetches, Nodes, MaxTime + 1)

SpecLater == Init /\ [][NextLater]_vars

\* every configuration, and the handlers that arm, use and clear the timer
NextConfig ==
  \/ \E p \in pending, snap \in Snapshots : InitFetchOk(p, snap)
  \/ \E p \in pending : InitFetchFail(p)
  \/ huePoll(MaxFetches)
  \/ \E p \in pending : processLightsFailed(p)
  \/ stop

SpecConfig == InitConfig /\ [][NextConfig]_vars

----------------------------------------------------------------------------
(* Helpers of the properties *)

\* the nodes registered for light l
Registered(nl, l) == IF l \in DOMAIN nl THEN {nl[l][i] : i \in 1..Len(nl[l])} ELSE {}

IsFetchCallback(d) == d.op \in {"initFetch", "processLights"}

----------------------------------------------------------------------------
(* C1 *)

\* C1: nodeRegister(lightID, nodeID, node) delivers within the call itself.
\* When lightID is in lights, the calls the handler makes are exactly: one
\* status update of the node from that light and, when node.isOutput is set,
\* one send of the light's current state; when lightID is not in lights, the
\* only call is the "unknown" status and nothing is sent.  (nodeRegister
\* leaves lights alone, so lights is the registry the call saw.)
C1_RegisterDelivers ==
  last.op = "nodeRegister" =>
    LET l == last.light
        n == last.node.id
    IN /\ last.node \in Registered(nodeList, l)
       /\ \A i \in 1..Len(last.calls) : last.calls[i].to = n /\ last.calls[i].light = l
       /\ IF l \in DOMAIN lights
          THEN /\ Count(last.calls, "status", n, l) = 1
               /\ last.calls[1] = updateNodeStatus(n, l, lights[l])
               /\ Count(last.calls, "send", n, l) = (IF last.node.isOutput = "false" THEN 0 ELSE 1)
               /\ \A i \in 1..Len(last.calls) :
                    last.calls[i].kind = "send" => last.calls[i].bri = lights[l].state
          ELSE last.calls = <<StatusCall(n, l, "unknown")>>

\* a node with isOutput set has registered for a light the hub knows
C1_Witness ==
  /\ last.op = "nodeRegister"
  /\ last.light \in DOMAIN lights
  /\ last.node.isOutput = "true"
  /\ Count(last.calls, "send", last.node.id, last.light) = 1

----------------------------------------------------------------------------
(* C2 *)

\* C2: a node that is not registered for a light receives nothing for it.
\* nodeUnregister(lightID, nodeID) leaves the node unregistered and calls
\* nobody; every call a handler makes (poll results, new-light announcements,
\* change events, registrations) goes to a node registered for that light at
\* that time, so the removed node gets neither a status nor a state until it
\* registers again; and whenever a light is announced or a change of it is
\* dispatched, every node registered for it has its status updated.
C2_UnregisteredGetsNothing ==
  /\ last.op = "nodeUnregister" =>
       /\ \A node \in Registered(nodeList, last.light) : node.id # last.node.id
       /\ last.calls = <<>>
  /\ \A i \in 1..Len(last.calls) :
       \E node \in Registered(nodeList, last.calls[i].light) : node.id = last.calls[i].to
  /\ IsFetchCallback(last) =>
       \A l \in (last.changed \cup last.added) \cap DOMAIN nodeList :
         \A node \in Registered(nodeList, l) : Count(last.calls, "status", node.id, l) = 1

\* the entry of L1 is empty, which only nodeUnregister brings about, and a
\* poll result has just made L1 emit a change: nobody was called
C2_Witness ==
  /\ last.op = "processLights"
  /\ "L1" \in last.changed
  /\ "L1" \in DOMAIN nodeList /\ nodeList["L1"] = <<>>
  /\ last.calls = <<>>

----------------------------------------------------------------------------
(* C3 *)

\* C3 (as claimed): for a poll result processed by processLights and a light
\* it reports that is known and was written by lightChange (modified > 0):
\* before the deadline no change is dispatched for the light, whatever the
\* state reported; after the deadline, a reported state that differs from the
\* one held makes the light emit its change.
C3_SuppressThenDetect ==
  [][\A p \in pending, snap \in Snapshots :
       processLights(p, snap) =>
         \A i \in 1..Len(snap) :
           LET l == snap[i].uniqueid
           IN (l \in DOMAIN lights /\ lights[l].modified > 0) =>
                /\ now < lights[l].modified => l \notin last'.changed
                /\ (now > lights[l].modified /\ snap[i].state # lights[l].state)
                     => l \in last'.changed]_vars

----------------------------------------------------------------------------
(* C4 *)

\* C4 (as claimed): when a fetched result (poll or initial fetch) contains a
\* light that is not in lights, the light is in lights afterwards and every
\* node registered for it with isOutput set was sent its state exactly once
\* in that pass.
C4_NewLightAnnouncedOnce ==
  [][\A p \in pending, snap \in Snapshots :
       (processLights(p, snap) \/ InitFetchOk(p, snap)) =>
         \A i \in 1..Len(snap) :
           LET l == snap[i].uniqueid
           IN l \notin DOMAIN lights =>
                /\ l \in DOMAIN lights'
                /\ \A node \in Registered(nodeList, l) :
                     Truthy(node.isOutput) => Count(last'.calls, "send", node.id, l) = 1]_vars

----------------------------------------------------------------------------
(* C5 *)

\* the state a failed initial fetch leaves: the only fetch is over, no timer
Inert == issued = 1 /\ pending = {} /\ ~lightPollInterval.armed

\* C5 (as claimed): a failed initial fetch is reported on the error channel
\* of the hub, no timer is armed and no poll fetch issued, and getLights()
\* returns the empty list.
C5_InitFailureReported ==
  /\ last.op = "initFetchFailed" =>
       /\ last.reported = "error"
       /\ ~last.thrown
       /\ Inert
  /\ Inert => getLights = <<>>

----------------------------------------------------------------------------
(* C6 *)

\* C6 (as claimed): the timer is armed with the configured interval, for
\* every config.interval that is a number at or above the floor.
C6_ArmedWithConfigured ==
  (lightPollInterval.armed /\ cfgIn.interval.t = "number" /\ cfgIn.interval.n >= MinInterval)
    => lightPollInterval.every = cfgIn.interval

----------------------------------------------------------------------------
(* C7 *)

\* C7 (as claimed): whatever the configuration, the interval the timer is
\* armed with is a number that is not below the floor.
C7_ArmedAtOrAboveFloor ==
  lightPollInterval.armed =>
    lightPollInterval.every.t = "number" /\ lightPollInterval.every.n >= MinInterval

----------------------------------------------------------------------------
(* C8 *)

\* C8 (as claimed): the callback of a fetch that was in flight when stop()
\* was called adds no light, notifies nobody and arms no timer: lights stays
\* empty and lightPollInterval null.
C8_QuiescentAfterStop ==
  (IsFetchCallback(last) /\ "stopped" \in last.late) =>
    /\ last.added = {} /\ last.changed = {} /\ last.calls = <<>>
    /\ lights = EmptyMap
    /\ lightPollInterval = Null

----------------------------------------------------------------------------
(* C9 *)

\* what stop() may touch, and the rest of the hub
hub == <<config, nodeList, lights, lightPollInterval, writes, issued>>

\* C9: stop() is idempotent.  Every call leaves the timer handle null and
\* lights empty, leaves the subscription registry as it was and raises
\* nothing; a call that follows a call changes nothing at all.
C9_StopIdempotent ==
  [][/\ last'.op = "stop" =>
          /\ lightPollInterval' = Null /\ lights' = EmptyMap
          /\ nodeList' = nodeList
          /\ ~last'.thrown
     /\ (last.op = "stop" /\ last'.op = "stop") => (hub' = hub /\ pending' = pending)]_vars

\* stop() has been called on a hub with a fetch in flight
C9_Witness ==
  /\ last.op = "stop"
  /\ pending # {}
  /\ lights = EmptyMap /\ lightPollInterval = Null

----------------------------------------------------------------------------
(* C10 *)

\* C10 (as claimed): the response of a fetch that was issued before a fetch
\* whose response has already been processed is not applied: it adds no
\* light, changes none and is dispatched to nobody.
C10_NoStaleResponse ==
  (IsFetchCallback(last) /\ "overtaken" \in last.late) =>
    last.added = {} /\ last.changed = {} /\ last.calls = <<>>

----------------------------------------------------------------------------
(* C11 *)

\* C11 (as claimed): when a poll fetch fails, the failure is reported on the
\* warning channel of the hub and no exception leaves the callback; lights
\* and the registry of nodes are unchanged, nobody is called, and the timer
\* is left as it was (armed, unless stop() was called).
C11_PollFailureWarned ==
  [][\A p \in pending :
       processLightsFailed(p) =>
         /\ last'.reported = "warning"
         /\ ~last'.thrown
         /\ lights' = lights /\ nodeList' = nodeList
         /\ last'.calls = <<>>
         /\ lightPollInterval' = lightPollInterval]_vars

----------------------------------------------------------------------------
(* C12 *)

\* C12 (as claimed): when the write issued by lightChange fails, the failure
\* is reported on the warning channel of the hub and not raised; the light
\* keeps the state and the deadline lightChange gave it, and the timer is
\* left as it was.
C12_WriteFailureWarned ==
  [][setLightStateDone(TRUE) =>
       /\ last'.reported = "warning"
       /\ ~last'.thrown
       /\ lights' = lights
       /\ lightPollInterval' = lightPollInterval]_vars

----------------------------------------------------------------------------
(* C13 *)

\* C13 (as claimed): lightChange for a light that is not in lights fails
\* with a DeviceNotFound outcome the caller gets (returned or raised), and
\* changes neither lights (deadlines included) nor the registry of nodes, and
\* issues no write.
C13_UnknownLightReported ==
  [][\A l \in LightIds, value \in Values :
       (lightChange(l, value) /\ l \notin DOMAIN lights) =>
         /\ last'.result = "DeviceNotFound" \/ last'.thrown
         /\ lights' = lights /\ nodeList' = nodeList /\ writes' = writes]_vars

----------------------------------------------------------------------------
(* C14 *)

\* C14 (as claimed): when a fetch callback announces a light or dispatches
\* its change and one of the nodes registered for the light raises on
\* delivery, every other node registered for the light still has its status
\* updated once and, if isOutput, is sent the state once, and the failure
\* does not leave the handler.
C14_DeliveryIsolated ==
  IsFetchCallback(last) =>
    \A l \in (last.changed \cup last.added) \cap DOMAIN nodeList :
      /\ \A node \in Registered(nodeList, l) :
           ~node.faulty =>
             /\ Count(last.calls, "status", node.id, l) = 1
             /\ node.isOutput = "true" => Count(last.calls, "send", node.id, l) = 1
      /\ (\E node \in Registered(nodeList, l) : node.faulty) => ~last.thrown

----------------------------------------------------------------------------
(* C15 *)

\* C15: the set of known lights only grows until stop().  No handler other
\* than stop() removes a light, and a poll result that omits a known light
\* leaves the record of that light (state and deadline) as it was.
C15_LightsOnlyGrow ==
  [][/\ last'.op # "stop" => DOMAIN lights \subseteq DOMAIN lights'
     /\ last'.op = "processLights" =>
          \A l \in DOMAIN lights \ last'.seen :
            l \in DOMAIN lights' /\ lights'[l] = lights[l]]_vars

\* a poll result with L2 only has been processed while L1, written before
\* (so known before), is in lights
C15_Witness ==
  /\ last.op = "processLights"
  /\ last.seen = {"L2"}
  /\ "L1" \in DOMAIN lights /\ lights["L1"].modified > 0

----------------------------------------------------------------------------
(* C16 *)

\* the list holds exactly one {id, info, name} entry for each light of ls
ListsExactly(list, ls) ==
  /\ Len(list) = Cardinality(DOMAIN ls)
  /\ \A i \in 1..Len(list) : list[i].id \in DOMAIN ls
  /\ \A l \in DOMAIN ls :
       \E i \in 1..Len(list) :
         list[i] = [id |-> l, info |-> ls[l].info.id, name |-> ls[l].info.name]

\* C16: getLights() returns exactly one {id, info, name} entry for each light
\* in lights and nothing else (the empty list when lights is empty, as before
\* the first successful fetch and after stop()), and the call changes nothing
\* of the hub.
C16_GetLightsSnapshot ==
  [][last'.op = "getLights" =>
       /\ ListsExactly(last'.list, lights')
       /\ hub' = hub /\ pending' = pending /\ now' = now /\ cfgIn' = cfgIn]_vars

\* getLights() has returned both lights
C16_Witness ==
  /\ last.op = "getLights"
  /\ DOMAIN lights = LightIds
  /\ Len(last.list) = 2

----------------------------------------------------------------------------
(* C17 *)

\* the positions of a statement in the steps of a handler
Positions(steps, name) == {i \in 1..Len(steps) : steps[i] = name}

\* every step named a comes before every step named b
AllBefore(steps, a, b) ==
  \A i \in Positions(steps, a), j \in Positions(steps, b) : i < j

\* C17 (as claimed): on a known light, lightChange leaves the deadline
\* strictly later than the current time plus one second; for a positive
\* duration (milliseconds) the deadline is at least the current time +
\* duration/1000 + 1 second; and the deadline is set before the local state
\* is updated and before the write is issued.
C17_DeadlineAsClaimed ==
  [][\A l \in LightIds, value \in Values :
       (lightChange(l, value) /\ l \in DOMAIN lights) =>
         /\ lights'[l].modified > now + 1
         /\ value.duration > 0 =>
              1000 * lights'[l].modified >= 1000 * now + value.duration + 1000
         /\ AllBefore(last'.steps, "modified", "updateColor")
         /\ AllBefore(last'.steps, "modified", "setLightState")]_vars

\* C17 (amended): on a known light, lightChange leaves the deadline at the
\* current time plus one second when the duration is not positive, and
\* strictly later than that, and at least the current time + duration/1000 +
\* 1 second, when the duration is positive; the deadline is first set before
\* the local state is updated, its extension for the duration follows the
\* update, and both precede the write.
C17_DeadlineCoversTransition ==
  [][last'.op = "lightChange" =>
     \A l \in LightIds, value \in Values :
       (lightChange(l, value) /\ l \in DOMAIN lights) =>
         /\ value.duration <= 0 => lights'[l].modified = now + 1
         /\ value.duration > 0 =>
              /\ lights'[l].modified > now + 1
              /\ 1000 * lights'[l].modified >= 1000 * now + value.duration + 1000
         /\ last'.steps[1] = "modified"
         /\ AllBefore(last'.steps, "modified", "setLightState")
         /\ Positions(last'.steps, "updateColor") # {}]_vars

\* a change with a transition of 1500 ms has been written to a known light:
\* the deadline lies three seconds after the call
C17_Witness ==
  /\ last.op = "lightChange"
  /\ last.light \in DOMAIN lights
  /\ Len(last.steps) = 4
  /\ lights[last.light].modified = now + 3

----------------------------------------------------------------------------
(* C18 *)

\* node.isOutput is set
IsOutputSet(node) == node.isOutput # "false"

\* C18 (as claimed): on every delivery path (nodeRegister on a known light,
\* the announcement of a new light, the dispatch of a change) every node
\* registered for the light has its status updated once, and the state is
\* sent to a node exactly when its isOutput is set: once if it is, never if
\* it is not, whichever path delivers.
C18_OutputAgreement ==
  /\ (last.op = "nodeRegister" /\ last.light \in DOMAIN lights) =>
       /\ Count(last.calls, "status", last.node.id, last.light) = 1
       /\ Count(last.calls, "send", last.node.id, last.light)
            = (IF IsOutputSet(last.node) THEN 1 ELSE 0)
  /\ IsFetchCallback(last) =>
       \A l \in (last.added \cup last.changed) \cap DOMAIN nodeList :
         \A node \in Registered(nodeList, l) :
           /\ Count(last.calls, "status", node.id, l) = 1
           /\ Count(last.calls, "send", node.id, l) = (IF IsOutputSet(node) THEN 1 ELSE 0)
  /\ \A i \in 1..Len(last.calls) :
       last.calls[i].kind = "send" =>
         \E node \in Registered(nodeList, last.calls[i].light) :
           node.id = last.calls[i].to /\ IsOutputSet(node)

----------------------------------------------------------------------------
(* C19 *)

\* C19 (as claimed): a change event for a light that has no entry in
\* nodeList raises nothing and calls nobody, as for a light whose entry is
\* empty.
C19_ChangeWithoutEntry ==
  last.op = "processLights" =>
    \A l \in last.changed :
      Registered(nodeList, l) = {} =>
        /\ ~last.thrown
        /\ \A i \in 1..Len(last.calls) : last.calls[i].light # l

----------------------------------------------------------------------------
(* C20 *)

\* C20 (as claimed): no exception leaves the callback of a successful poll
\* fetch; an error raised while one light is handled is reported as a
\* warning, and every light of the payload is still added, or updated when
\* its reported state is to be taken over.
C20_ErrorInOneLight ==
  [][\A p \in pending, snap \in Snapshots :
       processLights(p, snap) =>
         /\ ~last'.thrown
         /\ (\E l \in last'.changed : changeThrows(nodeList, l)) =>
              last'.reported = "warning"
         /\ \A i \in 1..Len(snap) :
              LET l == snap[i].uniqueid
              IN /\ l \in DOMAIN lights'
                 /\ (l \in DOMAIN lights /\ updateInfoChanges(lights[l], snap[i], now)) =>
                      lights'[l].state = snap[i].state]_vars

====
